---- MODULE Spec2Model ----
(***************************************************************************)
(* A model of the debt ledger of the Discord finance bot:                  *)
(*   src/database.py      the store (debts, pending_requests, and the      *)
(*                        payment allocator apply_payment)                 *)
(*   src/cogs/finance.py  the button handlers, the slash commands and the  *)
(*                        periodic sweep check_pending_requests            *)
(*                                                                         *)
(* Every `await` of the source is a point where another coroutine may      *)
(* run, so every store call of a handler is one step of the model.         *)
(*                                                                         *)
(* Money.  The columns are DECIMAL(12, 2): the model holds them in cents.  *)
(* The commands take Python floats: the model draws them in mills          *)
(* (1/1000), so that round(amount, 2) is a conversion that does something. *)
(* asyncpg hands a DECIMAL column to Python as decimal.Decimal, and the    *)
(* handlers hand apply_payment float(payment["amount"]).                   *)
(***************************************************************************)
EXTENDS Integers, Sequences, FiniteSets, TLC

VARIABLES
    now,               \* the clock NOW() of the store, in hours
    debts,             \* table debts, in created_at order (oldest first)
    nextDebtId,        \* the SERIAL of debts.id
    pending_requests,  \* table pending_requests: message_id -> row
    pending_payments,  \* table pending_payments: message_id -> row
    post,              \* per message: what its prompt was posted for
    prompt,            \* per message: the embed the channel shows
    cmd,               \* message -> expires_at, between the posting and the INSERT
    nextMsg,           \* the next message id Discord hands out
    tasks,             \* the button handlers (and direct allocator calls) in flight
    nextTask,          \* the next free task slot
    sweep,             \* the coroutine of check_pending_requests
    reply,             \* the answer the last slash command was given
    views,             \* the views the running bot has registered (in memory)
    boots,             \* how many times the bot has been started
    hist,              \* history: what has been done for each message
    ledger0            \* history: the debts table the run started from

vars == <<now, debts, nextDebtId, pending_requests, pending_payments, post,
          prompt, cmd, nextMsg, tasks, nextTask, sweep, reply, views, boots, hist, ledger0>>

---------------------------------------------------------------------------
(* Bounds of the model *)

MaxMsgs == 1
MaxTasks == 2
MaxTime == 48
MaxDebts == 2
MaxBoots == 2

Users == {"alice", "bob"}
Msgs == 1..MaxMsgs
TaskIds == 1..MaxTasks

\* The amounts a user types, in mills: /request 0, 0.004 or 5.00,
\* /pay -3.00, 3.00 or 10.00
RequestInputs == {0, 4, 5000}
PayInputs == {-3000, 3000, 10000}

\* Python's None, and the notes a /request is given
None == "None"
Notes == {None, "dinner"}
\* The float amounts a direct call of apply_payment is given, in cents
PaymentCents == {300, 1200, 1500}
\* The amounts of the Debt rows an existing ledger holds, in cents
LedgerCents == {500, 1000}

---------------------------------------------------------------------------
(* finance.py constants *)

EXPIRY_DAYS == 1
ExpiryHours == EXPIRY_DAYS * 24
ReminderHours == 1

Range(f) == {f[k] : k \in DOMAIN f}

RECURSIVE SumAmounts(_)
SumAmounts(s) == IF s = <<>> THEN 0 ELSE Head(s).amount + SumAmounts(Tail(s))

---------------------------------------------------------------------------
(* database.py: the schema *)

\* CHECK (amount > 0) of debts, pending_requests (and pending_payments)
CheckAmountLoose(a) == a >= 0
CheckAmount(a) == a > 0

\* round(amount, 2) of a float given in mills, to cents.  Python rounds the
\* exact binary value; the inputs of the model are no ties.
Round2(mills) == (mills + 5) \div 10

\* A row of debts
DebtRow(k, c, d, a) ==
    [id |-> k, creditor_id |-> c, debtor_id |-> d, amount |-> a, note |-> None]

\* The rows of one (creditor, debtor) pair, ORDER BY created_at ASC
PairRowsEitherWay(ledger, c, d) ==
    SelectSeq(ledger, LAMBDA r : {r.creditor_id, r.debtor_id} = {c, d})
PairRows(ledger, c, d) ==
    SelectSeq(ledger, LAMBDA r : r.creditor_id = c /\ r.debtor_id = d)

PairSum(ledger, c, d) == SumAmounts(PairRows(ledger, c, d))

---------------------------------------------------------------------------
(* database.py: apply_payment *)

\* Python: remaining -= row["amount"], with remaining a float (the
\* parameter amount: float) and row["amount"] a decimal.Decimal (a DECIMAL
\* column read by asyncpg).  float - Decimal is unsupported: Python raises
\* TypeError and assigns nothing.  value is what the subtraction would give.
FloatMinusDecimal(f, d) == [raised |-> TRUE, value |-> f - d]

\* SQL: UPDATE debts SET amount = amount - $1
UpdatedAmountKept(old, paid) == old
UpdatedAmount(old, paid) == old - paid

\* One write of the transaction, applied to the table at COMMIT
ApplyWrite(ledger, w) ==
    IF w.op = "DELETE"
    THEN SelectSeq(ledger, LAMBDA r : r.id # w.id)
    ELSE [k \in 1..Len(ledger) |->
            IF ledger[k].id = w.id
            THEN [ledger[k] EXCEPT !.amount = UpdatedAmount(@, w.by)]
            ELSE ledger[k]]

RECURSIVE ApplyWrites(_, _)
ApplyWrites(ledger, ws) ==
    IF ws = <<>> THEN ledger
    ELSE ApplyWrites(ApplyWrite(ledger, Head(ws)), Tail(ws))

\* The body of the for loop for one row: what it does to the loop's state
\* st = [remaining, writes, raised]
LoopBody(st, row) ==
    IF st.remaining >= row.amount
    THEN LET sub == FloatMinusDecimal(st.remaining, row.amount) IN
         IF sub.raised
         THEN [st EXCEPT !.raised = "TypeError"]
         ELSE [st EXCEPT !.remaining = sub.value,
                         !.writes = Append(@, [op |-> "DELETE", id |-> row.id, by |-> 0])]
    ELSE IF ~CheckAmount(UpdatedAmount(row.amount, st.remaining))
         THEN [st EXCEPT !.raised = "CheckViolation"]
         ELSE [st EXCEPT !.remaining = 0,
                         !.writes = Append(@, [op |-> "UPDATE", id |-> row.id,
                                               by |-> st.remaining])]

\* The whole loop, run alone on the rows fetched
RECURSIVE RunLoop(_, _)
RunLoop(st, rows) ==
    IF rows = <<>> \/ st.remaining <= 0 \/ st.raised # "no" THEN st
    ELSE RunLoop(LoopBody(st, Head(rows)), Tail(rows))

\* apply_payment run alone on a ledger: the ledger it leaves, how it ends
\* and what it returns
apply_payment(ledger, c, d, amount) ==
    LET st == RunLoop([remaining |-> amount, writes |-> <<>>, raised |-> "no"],
                      PairRows(ledger, c, d)) IN
    IF st.raised # "no"
    THEN [ledger |-> ledger, outcome |-> st.raised, ret |-> 0]
    ELSE [ledger |-> ApplyWrites(ledger, st.writes), outcome |-> "returned",
          ret |-> st.remaining]

---------------------------------------------------------------------------
(* The coroutines *)

FreeTask ==
    [kind |-> "none", pc |-> "free", msg |-> 0, user |-> "none",
     creditor_id |-> "none", debtor_id |-> "none", amount |-> 0, note |-> None,
     rows |-> <<>>, i |-> 1, remaining |-> 0, writes |-> <<>>, ret |-> 0,
     outcome |-> "none"]

\* A callback that has ended: its locals are gone, how it ended is kept
Ended(tk, how) ==
    [FreeTask EXCEPT !.kind = tk.kind, !.pc = "done", !.msg = tk.msg,
                     !.user = tk.user, !.outcome = how]

\* A coroutine ended by an exception (or by an early return): its open
\* transaction rolls back
Finish(tk, how) ==
    IF tk.kind = "apply_payment"
    THEN [tk EXCEPT !.pc = "done", !.outcome = how, !.writes = <<>>]
    ELSE Ended(tk, how)

\* async with conn.transaction(): left by an exception, the block rolls
\* back, and the writes made inside it are gone
RollbackPartial(ledger, writes) == ApplyWrites(ledger, writes)
Rollback(ledger, writes) == ledger

\* The Debt rows a transaction holds locked (SELECT ... FOR UPDATE), until
\* it commits or rolls back
LockedBy(t) ==
    IF tasks[t].pc = "ap_loop" THEN {r.id : r \in Range(tasks[t].rows)} ELSE {}

\* FOR UPDATE: the SELECT waits while another transaction holds a row of
\* the pair
NoRowLock(t, c, d) == FALSE
ForUpdateBlocked(t, c, d) ==
    \E u \in TaskIds \ {t} :
        LockedBy(u) \cap {r.id : r \in Range(PairRows(debts, c, d))} # {}

\* Where a coroutine goes on when apply_payment has returned
AfterApply(kind) == IF kind = "apply_payment" THEN "done" ELSE "delete"

UnchangedStore == UNCHANGED <<now, nextDebtId, pending_requests, pending_payments>>
UnchangedPosts == UNCHANGED <<post, prompt, cmd, nextMsg, sweep, reply, views, boots, ledger0>>
UnchangedChat == UnchangedPosts /\ UNCHANGED hist

\* A direct call apply_payment(creditor_id, debtor_id, amount)
CallApplyPayment(c, d, a) ==
    /\ nextTask <= MaxTasks
    /\ c # d
    /\ tasks' = [tasks EXCEPT ![nextTask] =
                    [FreeTask EXCEPT !.kind = "apply_payment", !.pc = "ap_fetch",
                                     !.creditor_id = c, !.debtor_id = d,
                                     !.amount = a]]
    /\ nextTask' = nextTask + 1
    /\ UNCHANGED debts
    /\ UnchangedStore /\ UnchangedChat

\* async with conn.transaction(): rows = await conn.fetch(... FOR UPDATE);
\* remaining = amount
ApFetch(t) ==
    LET tk == tasks[t] IN
    /\ tk.pc = "ap_fetch"
    /\ ~ForUpdateBlocked(t, tk.creditor_id, tk.debtor_id)
    /\ tasks' = [tasks EXCEPT ![t] =
                    [tk EXCEPT !.pc = "ap_loop",
                               !.rows = PairRows(debts, tk.creditor_id, tk.debtor_id),
                               !.i = 1, !.remaining = tk.amount, !.writes = <<>>]]
    /\ UNCHANGED <<debts, nextTask>>
    /\ UnchangedStore /\ UnchangedChat

\* One turn of  for row in rows:  that does not break
ApRow(t) ==
    LET tk == tasks[t] IN
    /\ tk.pc = "ap_loop"
    /\ tk.i <= Len(tk.rows)
    /\ tk.remaining > 0
    /\ LET st == LoopBody([remaining |-> tk.remaining, writes |-> tk.writes,
                           raised |-> "no"], tk.rows[tk.i]) IN
       tasks' = [tasks EXCEPT ![t] =
                    IF st.raised # "no"
                    THEN Finish(tk, st.raised)
                    ELSE [tk EXCEPT !.remaining = st.remaining,
                                    !.writes = st.writes, !.i = tk.i + 1]]
       /\ debts' = IF st.raised # "no" THEN Rollback(debts, tk.writes) ELSE debts
    /\ UNCHANGED nextTask
    /\ UnchangedStore /\ UnchangedChat

\* The loop is over (rows exhausted, or remaining <= 0): return remaining,
\* leaving the transaction block, which commits
ApCommit(t) ==
    LET tk == tasks[t] IN
    /\ tk.pc = "ap_loop"
    /\ (tk.i > Len(tk.rows) \/ tk.remaining <= 0)
    /\ debts' = ApplyWrites(debts, tk.writes)
    /\ tasks' = [tasks EXCEPT ![t] =
                    IF tk.kind = "apply_payment"
                    THEN [tk EXCEPT !.pc = "done", !.ret = tk.remaining,
                                    !.outcome = "returned"]
                    ELSE [tk EXCEPT !.pc = AfterApply(tk.kind), !.ret = tk.remaining,
                                    !.rows = <<>>, !.writes = <<>>, !.i = 1,
                                    !.remaining = 0]]
    /\ hist' = IF tk.msg \in DOMAIN hist
               THEN [hist EXCEPT ![tk.msg].runs = @ + 1,
                                 ![tk.msg].applied = @ + (tk.amount - tk.remaining)]
               ELSE hist
    /\ UNCHANGED nextTask
    /\ UnchangedStore /\ UnchangedPosts

\* A store call of the coroutine raises (connection lost, statement
\* timeout): nothing catches it, the coroutine ends, and an open
\* transaction rolls back
StorePcs == {"get", "add", "ap_fetch", "ap_loop", "delete"}

StoreError(t) ==
    /\ tasks[t].pc \in StorePcs
    /\ tasks' = [tasks EXCEPT ![t] = Finish(@, "StoreError")]
    /\ debts' = Rollback(debts, tasks[t].writes)
    /\ hist' = IF tasks[t].msg \in DOMAIN hist /\ tasks[t].writes # <<>>
               THEN [hist EXCEPT ![tasks[t].msg].rolledback = TRUE] ELSE hist
    /\ UNCHANGED nextTask
    /\ UnchangedStore /\ UnchangedPosts

---------------------------------------------------------------------------
(* database.py: get_balance_between *)

\* SELECT COALESCE(SUM(amount), 0) FROM debts WHERE creditor_id=$1 AND
\* debtor_id=$2
Owed(ledger, creditor, debtor) == PairSum(ledger, creditor, debtor)

\* return float(owed_to_a) - float(owed_to_b).  The amounts are carried in
\* cents: a float of a DECIMAL(12, 2) value is that value to within the
\* rounding of a double, far below a cent.
BalanceSum(owed_to_a, owed_to_b) == owed_to_a + owed_to_b
BalanceDiff(owed_to_a, owed_to_b) == owed_to_a - owed_to_b

\* A call get_balance_between(user_a, user_b)
CallGetBalance(a, b) ==
    /\ nextTask <= MaxTasks
    /\ a # b
    /\ tasks' = [tasks EXCEPT ![nextTask] =
                    [FreeTask EXCEPT !.kind = "get_balance_between", !.pc = "owed_to_a",
                                     !.creditor_id = a, !.debtor_id = b]]
    /\ nextTask' = nextTask + 1
    /\ UNCHANGED debts
    /\ UnchangedStore /\ UnchangedChat

\* owed_to_a = await conn.fetchval(...): a plain SELECT waits for no lock
\* and reads what is committed.  rows keeps the table as it was read
\* (history).
BalOwedToA(t) ==
    LET tk == tasks[t] IN
    /\ tk.pc = "owed_to_a"
    /\ tasks' = [tasks EXCEPT ![t] =
                    [tk EXCEPT !.pc = "owed_to_b",
                               !.remaining = Owed(debts, tk.creditor_id, tk.debtor_id),
                               !.rows = debts]]
    /\ UNCHANGED <<debts, nextTask>>
    /\ UnchangedStore /\ UnchangedChat

\* owed_to_b = await conn.fetchval(...); return the difference.  outcome
\* tells (history) whether a commit fell between the two queries.
BalOwedToB(t) ==
    LET tk == tasks[t] IN
    /\ tk.pc = "owed_to_b"
    /\ tasks' = [tasks EXCEPT ![t] =
                    [tk EXCEPT !.pc = "done",
                               !.ret = BalanceDiff(tk.remaining,
                                                   Owed(debts, tk.debtor_id, tk.creditor_id)),
                               !.remaining = 0,
                               !.outcome = IF debts = tk.rows THEN "returned"
                                           ELSE "returned_across_commit"]]
    /\ UNCHANGED <<debts, nextTask>>
    /\ UnchangedStore /\ UnchangedChat

---------------------------------------------------------------------------
(* database.py: the pending tables.  The pending_payments functions are   *)
(* called by cogs/finance.py and are not in database.py: they are          *)
(* modelled as the twins of the pending_requests functions, as the data    *)
(* model describes them ("same shape as PendingRequest").                  *)

Without(f, m) == [k \in DOMAIN f \ {m} |-> f[k]]

PendingRow(c, d, a, e) ==
    [creditor_id |-> c, debtor_id |-> d, amount |-> a, note |-> None,
     expires_at |-> e, reminded |-> FALSE]

\* INSERT INTO pending_requests: refused by CHECK (amount > 0)
InsertPending(table, m, row) ==
    IF CheckAmount(row.amount) THEN table @@ (m :> row) ELSE table

\* SELECT * FROM pending_requests WHERE message_id = $1: <<row>> or <<>>
get_pending_request(m) ==
    IF m \in DOMAIN pending_requests THEN <<pending_requests[m]>> ELSE <<>>

get_pending_payment(m) ==
    IF m \in DOMAIN pending_payments THEN <<pending_payments[m]>> ELSE <<>>

\* DELETE FROM pending_requests WHERE message_id = $1
delete_pending_request(m) == Without(pending_requests, m)

delete_pending_payment(m) == Without(pending_payments, m)

ToRemind(table) ==
    {m \in DOMAIN table : /\ ~table[m].reminded
                          /\ table[m].expires_at <= now + ReminderHours
                          /\ table[m].expires_at > now}

get_requests_to_remind == ToRemind(pending_requests)

get_payments_to_remind == ToRemind(pending_payments)

\* SELECT * FROM pending_requests WHERE expires_at <= NOW()
ExpiredWithinWindow(table) ==
    {m \in DOMAIN table : table[m].expires_at <= now + ExpiryHours}
ExpiredNever(table) == {}
Expired(table) == {m \in DOMAIN table : table[m].expires_at <= now}

get_expired_requests == Expired(pending_requests)

get_expired_payments == Expired(pending_payments)

\* UPDATE pending_requests SET reminded = TRUE WHERE message_id = $1
MarkReminded(table, m) ==
    IF m \in DOMAIN table THEN [table EXCEPT ![m].reminded = TRUE] ELSE table

mark_reminded(m) == MarkReminded(pending_requests, m)

mark_payment_reminded(m) == MarkReminded(pending_payments, m)

---------------------------------------------------------------------------
(* cogs/finance.py: the slash commands /request and /pay *)

NoPost == [kind |-> "none", creditor_id |-> "none", debtor_id |-> "none", mills |-> 0,
           amount |-> 0, created_at |-> 0, actor |-> "none", member |-> "none",
           note |-> None]
NoHist == [debts |-> 0, runs |-> 0, applied |-> 0, removed |-> "no", reminders |-> 0,
           restarted |-> FALSE, rolledback |-> FALSE]

\* The view class whose buttons a prompt carries
ViewOf(kind) == IF kind = "request" THEN "ConfirmDebtView" ELSE "ConfirmPaymentView"

\* The checks a command starts with: member.id == interaction.user.id,
\* then amount <= 0
ValidateNothing(actor, member, mills) == "ok"
Validate(actor, member, mills) ==
    IF member = actor THEN "self"
    ELSE IF mills <= 0 THEN "amount"
    ELSE "ok"

\* A command that fails a check: the ephemeral message, and return
Reject(why) ==
    /\ reply' = why
    /\ UNCHANGED <<now, debts, nextDebtId, pending_requests, pending_payments,
                   post, prompt, cmd, nextMsg, tasks, nextTask, sweep, views, boots,
                   hist, ledger0>>

\* Up to interaction.original_response(): the prompt is posted with its
\* buttons; the INSERT comes after
Post(kind, actor, member, roles, mills, note) ==
    /\ reply' = "posted"
    /\ views' = views \cup {ViewOf(kind)}
    /\ post' = [post EXCEPT ![nextMsg] =
                   [kind |-> kind, creditor_id |-> roles.creditor_id,
                    debtor_id |-> roles.debtor_id,
                    mills |-> mills, amount |-> Round2(mills), created_at |-> now,
                    actor |-> actor, member |-> member, note |-> note]]
    /\ prompt' = [prompt EXCEPT ![nextMsg] = "pending"]
    /\ cmd' = cmd @@ (nextMsg :> now + ExpiryHours)
    /\ nextMsg' = nextMsg + 1
    /\ UNCHANGED <<now, debts, nextDebtId, pending_requests, pending_payments,
                   tasks, nextTask, sweep, boots, hist, ledger0>>

\* add_pending_request(creditor_id=interaction.user.id, debtor_id=member.id)
RequestRoles(actor, member) == [creditor_id |-> actor, debtor_id |-> member]

\* add_pending_payment(creditor_id=member.id, debtor_id=interaction.user.id)
PayRolesAsRequest(actor, member) == [creditor_id |-> actor, debtor_id |-> member]
PayRoles(actor, member) == [creditor_id |-> member, debtor_id |-> actor]

\* /request member amount [note]: the actor is the creditor.  The commands
\* are followed until the last prompt of the model is posted.
request(actor, member, mills, note) ==
    /\ nextMsg <= MaxMsgs
    /\ IF Validate(actor, member, mills) # "ok"
       THEN Reject(Validate(actor, member, mills))
       ELSE Post("request", actor, member, RequestRoles(actor, member), mills, note)

\* /pay member amount: the actor is the debtor
pay(actor, member, mills) ==
    /\ nextMsg <= MaxMsgs
    /\ IF Validate(actor, member, mills) # "ok"
       THEN Reject(Validate(actor, member, mills))
       ELSE Post("payment", actor, member, PayRoles(actor, member), mills, None)

\* await db.add_pending_request(...) / await db.add_pending_payment(...)
AddPending(m) ==
    LET row == [PendingRow(post[m].creditor_id, post[m].debtor_id, post[m].amount,
                           cmd[m]) EXCEPT !.note = post[m].note] IN
    /\ m \in DOMAIN cmd
    /\ IF post[m].kind = "request"
       THEN /\ pending_requests' = InsertPending(pending_requests, m, row)
            /\ UNCHANGED pending_payments
       ELSE /\ pending_payments' = InsertPending(pending_payments, m, row)
            /\ UNCHANGED pending_requests
    /\ cmd' = Without(cmd, m)
    /\ UNCHANGED <<now, debts, nextDebtId, post, prompt, nextMsg,
                   tasks, nextTask, sweep, reply, views, boots, hist, ledger0>>

---------------------------------------------------------------------------
(* cogs/finance.py: ConfirmDebtView and ConfirmPaymentView *)

ButtonKind(kind, button) ==
    IF kind = "request"
    THEN (IF button = "confirm" THEN "confirm_debt" ELSE "deny_debt")
    ELSE (IF button = "confirm" THEN "confirm_payment" ELSE "deny_payment")

IsRequestKind(kind) == kind \in {"confirm_debt", "deny_debt"}
IsConfirmKind(kind) == kind \in {"confirm_debt", "confirm_payment"}

\* A user presses a button of a prompt that shows its buttons: Discord
\* starts the callback of the view registered for the button's custom_id
Press(m, user, button) ==
    /\ nextTask <= MaxTasks
    /\ prompt[m] = "pending"
    /\ ViewOf(post[m].kind) \in views
    /\ tasks' = [tasks EXCEPT ![nextTask] =
                    [FreeTask EXCEPT !.kind = ButtonKind(post[m].kind, button),
                                     !.pc = "get", !.msg = m, !.user = user]]
    /\ nextTask' = nextTask + 1
    /\ UNCHANGED debts
    /\ UnchangedStore /\ UnchangedChat

\* The lookup of the callback, by interaction.message.id
GetPending(kind, m) ==
    IF IsRequestKind(kind) THEN get_pending_request(m) ELSE get_pending_payment(m)

\* interaction.user.id != request["debtor_id"] / payment["creditor_id"]
NotAuthorizedNever(kind, user, row) == FALSE
NotAuthorized(kind, user, row) ==
    IF IsRequestKind(kind) THEN user # row.debtor_id ELSE user # row.creditor_id

\* What the callback does next once the row is read and the user checked
AfterGetAdd(kind) == "add"
AfterGet(kind) ==
    CASE kind = "confirm_debt" -> "add"
      [] kind = "confirm_payment" -> "ap_fetch"
      [] OTHER -> "delete"

\* The callback up to its first write: the lookup by message id, the
\* "already resolved" answer, the authorization answer
Get(t) ==
    LET tk == tasks[t]
        got == GetPending(tk.kind, tk.msg) IN
    /\ tk.pc = "get"
    /\ tasks' = [tasks EXCEPT ![t] =
                    IF got = <<>> THEN Finish(tk, "already_resolved")
                    ELSE IF NotAuthorized(tk.kind, tk.user, got[1])
                         THEN Finish(tk, "not_authorized")
                         ELSE [tk EXCEPT !.pc = AfterGet(tk.kind),
                                         !.creditor_id = got[1].creditor_id,
                                         !.debtor_id = got[1].debtor_id,
                                         !.amount = got[1].amount,
                                         !.note = got[1].note]]
    /\ UNCHANGED <<debts, nextTask>>
    /\ UnchangedStore /\ UnchangedChat

\* await db.add_debt(...): INSERT INTO debts, under CHECK (amount > 0)
add_debt(t) ==
    LET tk == tasks[t] IN
    /\ tk.pc = "add"
    /\ IF CheckAmount(tk.amount)
       THEN /\ debts' = Append(debts, [DebtRow(nextDebtId, tk.creditor_id,
                                               tk.debtor_id, tk.amount)
                                       EXCEPT !.note = tk.note])
            /\ nextDebtId' = nextDebtId + 1
            /\ hist' = [hist EXCEPT ![tk.msg].debts = @ + 1]
            /\ tasks' = [tasks EXCEPT ![t].pc = "delete"]
       ELSE /\ tasks' = [tasks EXCEPT ![t] = Finish(tk, "CheckViolation")]
            /\ UNCHANGED <<debts, nextDebtId, hist>>
    /\ UNCHANGED <<now, pending_requests, pending_payments, nextTask>>
    /\ UnchangedPosts

\* await db.delete_pending_request(...) / db.delete_pending_payment(...)
\* of a callback
DeletePending(t) ==
    LET tk == tasks[t]
        who == IF IsConfirmKind(tk.kind) THEN "confirm" ELSE "deny" IN
    /\ tk.pc = "delete"
    /\ IF IsRequestKind(tk.kind)
       THEN /\ pending_requests' = delete_pending_request(tk.msg)
            /\ hist' = IF tk.msg \in DOMAIN pending_requests
                       THEN [hist EXCEPT ![tk.msg].removed = who] ELSE hist
            /\ UNCHANGED pending_payments
       ELSE /\ pending_payments' = delete_pending_payment(tk.msg)
            /\ hist' = IF tk.msg \in DOMAIN pending_payments
                       THEN [hist EXCEPT ![tk.msg].removed = who] ELSE hist
            /\ UNCHANGED pending_requests
    /\ tasks' = [tasks EXCEPT ![t].pc = "respond"]
    /\ UNCHANGED <<now, debts, nextDebtId, nextTask>>
    /\ UnchangedPosts

\* await interaction.response.edit_message(embed=..., view=None)
Respond(t) ==
    LET tk == tasks[t]
        how == IF IsConfirmKind(tk.kind) THEN "confirmed" ELSE "denied" IN
    /\ tk.pc = "respond"
    /\ prompt' = [prompt EXCEPT ![tk.msg] = how]
    /\ tasks' = [tasks EXCEPT ![t] = Ended(tk, how)]
    /\ UNCHANGED <<debts, nextTask, post, cmd, nextMsg, sweep, reply, views, boots,
                   hist, ledger0>>
    /\ UnchangedStore

---------------------------------------------------------------------------
(* cogs/finance.py: check_pending_requests, the sweep *)

UnchangedBySweep == UNCHANGED <<now, debts, nextDebtId, post, cmd, nextMsg, tasks,
                                nextTask, reply, views, boots, ledger0>>

IdleSweep == [pc |-> "idle", todo |-> {}, cur |-> 0, raised |-> "no"]

\* The rows a run started now would find in one of its four queries
Due ==
    get_requests_to_remind \cup get_expired_requests
    \cup get_payments_to_remind \cup get_expired_payments

\* The loop starts a run: to_remind = await db.get_requests_to_remind(...).
\* The loop runs every 5 minutes; a run that finds no row in any query
\* changes nothing, and the runs followed are those that start when a row
\* is in its reminder hour or has expired.
SweepStart ==
    /\ sweep = IdleSweep
    /\ Due # {}
    /\ sweep' = [IdleSweep EXCEPT !.pc = "remind_req", !.todo = get_requests_to_remind]
    /\ UNCHANGED <<pending_requests, pending_payments, prompt, hist>>
    /\ UnchangedBySweep

\* One turn of a reminder loop, first half: channel.send(...) when the
\* channel is known.  Nothing catches what send raises: the run ends there.
SweepSend(m, how) ==
    /\ sweep.raised = "no"
    /\ sweep.pc \in {"remind_req", "remind_pay"}
    /\ sweep.cur = 0
    /\ m \in sweep.todo
    /\ sweep' = IF how = "HTTPException"
                THEN [sweep EXCEPT !.raised = how]
                ELSE [sweep EXCEPT !.todo = @ \ {m}, !.cur = m]
    /\ hist' = IF how = "sent" THEN [hist EXCEPT ![m].reminders = @ + 1] ELSE hist
    /\ UNCHANGED <<pending_requests, pending_payments, prompt>>
    /\ UnchangedBySweep

\* Second half: db.mark_reminded / db.mark_payment_reminded
SweepMark ==
    LET m == sweep.cur IN
    /\ sweep.raised = "no"
    /\ sweep.pc \in {"remind_req", "remind_pay"}
    /\ m # 0
    /\ sweep' = [sweep EXCEPT !.cur = 0]
    /\ IF sweep.pc = "remind_req"
       THEN /\ pending_requests' = mark_reminded(m)
            /\ UNCHANGED pending_payments
       ELSE /\ pending_payments' = mark_payment_reminded(m)
            /\ UNCHANGED pending_requests
    /\ UNCHANGED <<prompt, hist>>
    /\ UnchangedBySweep

\* A loop of the run is over: the next query, or the end of the run
SweepNext ==
    /\ sweep.raised = "no"
    /\ sweep.pc # "idle"
    /\ sweep.todo = {}
    /\ sweep.cur = 0
    /\ sweep' = CASE sweep.pc = "remind_req" ->
                       [sweep EXCEPT !.pc = "expire_req", !.todo = get_expired_requests]
                  [] sweep.pc = "expire_req" ->
                       [sweep EXCEPT !.pc = "remind_pay", !.todo = get_payments_to_remind]
                  [] sweep.pc = "remind_pay" ->
                       [sweep EXCEPT !.pc = "expire_pay", !.todo = get_expired_payments]
                  [] OTHER -> IdleSweep
    /\ UNCHANGED <<pending_requests, pending_payments, prompt, hist>>
    /\ UnchangedBySweep

\* One turn of an expiry loop, first half: fetch the prompt and rewrite it
\* as expired (shown).  No channel, discord.NotFound and discord.Forbidden
\* are passed over (missing); any other exception of fetch_message or
\* msg.edit is not caught, and the run ends there.
SweepEdit(m, how) ==
    /\ sweep.raised = "no"
    /\ sweep.pc \in {"expire_req", "expire_pay"}
    /\ sweep.cur = 0
    /\ m \in sweep.todo
    /\ sweep' = IF how = "HTTPException"
                THEN [sweep EXCEPT !.raised = how]
                ELSE [sweep EXCEPT !.todo = @ \ {m}, !.cur = m]
    /\ prompt' = IF how = "shown" THEN [prompt EXCEPT ![m] = "expired"] ELSE prompt
    /\ UNCHANGED <<pending_requests, pending_payments, hist>>
    /\ UnchangedBySweep

\* Second half: db.delete_pending_request / db.delete_pending_payment
SweepDelete ==
    LET m == sweep.cur IN
    /\ sweep.raised = "no"
    /\ sweep.pc \in {"expire_req", "expire_pay"}
    /\ m # 0
    /\ sweep' = [sweep EXCEPT !.cur = 0]
    /\ IF sweep.pc = "expire_req"
       THEN /\ pending_requests' = delete_pending_request(m)
            /\ hist' = IF m \in DOMAIN pending_requests
                       THEN [hist EXCEPT ![m].removed = "sweep"] ELSE hist
            /\ UNCHANGED pending_payments
       ELSE /\ pending_payments' = delete_pending_payment(m)
            /\ hist' = IF m \in DOMAIN pending_payments
                       THEN [hist EXCEPT ![m].removed = "sweep"] ELSE hist
            /\ UNCHANGED pending_requests
    /\ UNCHANGED prompt
    /\ UnchangedBySweep

\* The instants at which a query of the sweep changes its answer: a row
\* enters its reminder hour, a row expires
Deadlines ==
    UNION {{r.expires_at - ReminderHours, r.expires_at} :
              r \in Range(pending_requests) \cup Range(pending_payments)}

\* Time passes, up to the next such instant
Tick ==
    /\ \E x \in Deadlines :
          /\ x > now
          /\ \A y \in Deadlines : y > now => x <= y
          /\ x <= MaxTime
          /\ now' = x
    /\ UNCHANGED <<debts, nextDebtId, pending_requests, pending_payments, post,
                   prompt, cmd, nextMsg, tasks, nextTask, sweep, reply, views, boots, hist, ledger0>>

---------------------------------------------------------------------------
(* bot.py: the bot starts again *)

\* setup_hook: self.add_view(ConfirmDebtView(self)),
\* self.add_view(ConfirmPaymentView(self))
SetupHookDebtViewOnly == {"ConfirmDebtView"}
setup_hook == {"ConfirmDebtView", "ConfirmPaymentView"}

\* The process stops and is started again.  Every coroutine in flight is
\* gone where it stood (an open transaction rolls back), and so is what the
\* bot held in memory; the store and the prompts in the channel stay.
\* setup_hook registers the views again and the cog starts the sweep loop.
\* A restart is followed where the bot has something to lose or to find
\* again: a coroutine in flight, a pending item.
Restart ==
    /\ boots < MaxBoots
    /\ \/ \E t \in TaskIds : tasks[t].pc \notin {"free", "done"}
       \/ sweep # IdleSweep
       \/ cmd # <<>>
       \/ pending_requests # <<>>
       \/ pending_payments # <<>>
    /\ boots' = boots + 1
    /\ tasks' = [t \in TaskIds |->
                    IF tasks[t].pc \in {"free", "done"} THEN tasks[t]
                    ELSE Finish(tasks[t], "killed")]
    /\ sweep' = IdleSweep
    /\ cmd' = <<>>
    /\ views' = setup_hook
    /\ hist' = [m \in Msgs |->
                   IF m \in DOMAIN pending_requests \/ m \in DOMAIN pending_payments
                   THEN [hist[m] EXCEPT !.restarted = TRUE] ELSE hist[m]]
    /\ UNCHANGED <<now, debts, nextDebtId, pending_requests, pending_payments,
                   post, prompt, nextMsg, nextTask, reply, ledger0>>

---------------------------------------------------------------------------
(* The bot *)

\* The store outlives the bot (CREATE TABLE IF NOT EXISTS): the bot starts
\* on an empty ledger, or on one an earlier run left
StoredLedgers == {<<>>, <<DebtRow(1, "alice", "bob", 1000)>>}

Init ==
    /\ now = 0
    /\ debts \in StoredLedgers
    /\ ledger0 = debts
    /\ nextDebtId = Len(debts) + 1
    /\ pending_requests = <<>>
    /\ pending_payments = <<>>
    /\ post = [m \in Msgs |-> NoPost]
    /\ prompt = [m \in Msgs |-> "none"]
    /\ cmd = <<>>
    /\ nextMsg = 1
    /\ tasks = [t \in TaskIds |-> FreeTask]
    /\ nextTask = 1
    /\ sweep = IdleSweep
    /\ reply = "none"
    /\ views = setup_hook
    /\ boots = 1
    /\ hist = [m \in Msgs |-> NoHist]

Next ==
    \/ \E a \in Users, b \in Users, x \in RequestInputs, n \in Notes :
          request(a, b, x, n)
    \/ \E a \in Users, b \in Users, x \in PayInputs : pay(a, b, x)
    \/ \E m \in Msgs : AddPending(m)
    \/ \E m \in Msgs, u \in Users, b \in {"confirm", "deny"} : Press(m, u, b)
    \/ \E t \in TaskIds : Get(t)
    \/ \E t \in TaskIds : add_debt(t)
    \/ \E t \in TaskIds : ApFetch(t)
    \/ \E t \in TaskIds : ApRow(t)
    \/ \E t \in TaskIds : ApCommit(t)
    \/ \E t \in TaskIds : DeletePending(t)
    \/ \E t \in TaskIds : Respond(t)
    \/ \E t \in TaskIds : StoreError(t)
    \/ SweepStart
    \/ \E m \in Msgs, how \in {"sent", "no_channel", "HTTPException"} : SweepSend(m, how)
    \/ SweepMark
    \/ SweepNext
    \/ \E m \in Msgs, how \in {"shown", "missing", "HTTPException"} : SweepEdit(m, how)
    \/ SweepDelete
    \/ Tick
    \/ Restart

Spec == Init /\ [][Next]_vars

\* The bot with its scheduling.  Time passes; tasks.loop(minutes=5) starts
\* a run of check_pending_requests while the loop is alive, and every await
\* of a run returns or raises, so that a run that has not raised takes its
\* next step.
SweepStep ==
    \/ SweepStart
    \/ \E m \in Msgs, how \in {"sent", "no_channel", "HTTPException"} : SweepSend(m, how)
    \/ SweepMark
    \/ SweepNext
    \/ \E m \in Msgs, how \in {"shown", "missing", "HTTPException"} : SweepEdit(m, how)
    \/ SweepDelete

SpecLive == Init /\ [][Next]_vars /\ WF_vars(Tick) /\ WF_vars(SweepStep)

---------------------------------------------------------------------------
(* The allocator alone: concurrent calls of apply_payment on a ledger *)

Pairs == {p \in Users \X Users : p[1] # p[2]}

\* The ledgers of up to MaxDebts rows: ids ascend with created_at
Ledgers ==
    UNION {{[k \in 1..n |-> DebtRow(k, ps[k][1], ps[k][2], as[k])] :
              ps \in [1..n -> Pairs], as \in [1..n -> LedgerCents]} :
           n \in 0..MaxDebts}

\* The pending_requests table the calls find: empty, or holding a request
StoredPending == {<<>>, 1 :> PendingRow("bob", "alice", 500, ExpiryHours)}

InitAlloc ==
    /\ now = 0
    /\ debts \in Ledgers
    /\ ledger0 = debts
    /\ nextDebtId = Len(debts) + 1
    /\ pending_requests \in StoredPending
    /\ pending_payments = <<>>
    /\ post = [m \in Msgs |-> NoPost]
    /\ prompt = [m \in Msgs |-> "none"]
    /\ cmd = <<>>
    /\ nextMsg = 1
    /\ tasks = [t \in TaskIds |-> FreeTask]
    /\ nextTask = 1
    /\ sweep = IdleSweep
    /\ reply = "none"
    /\ views = setup_hook
    /\ boots = 1
    /\ hist = [m \in Msgs |-> NoHist]

NextAlloc ==
    \/ \E p \in Pairs, a \in PaymentCents : CallApplyPayment(p[1], p[2], a)
    \/ \E p \in Pairs : CallGetBalance(p[1], p[2])
    \/ \E t \in TaskIds : BalOwedToA(t)
    \/ \E t \in TaskIds : BalOwedToB(t)
    \/ \E t \in TaskIds : ApFetch(t)
    \/ \E t \in TaskIds : ApRow(t)
    \/ \E t \in TaskIds : ApCommit(t)

SpecAlloc == InitAlloc /\ [][NextAlloc]_vars

---------------------------------------------------------------------------
(* Claims about the allocator, checked under SpecAlloc *)

Calls == {t \in TaskIds : tasks[t].kind = "apply_payment"}
Returned(t) == tasks[t].pc = "done" /\ tasks[t].outcome = "returned"

RECURSIVE SumOver(_, _)
SumOver(f, S) ==
    IF S = {} THEN 0
    ELSE LET x == CHOOSE y \in S : TRUE IN f[x] + SumOver(f, S \ {x})

\* What the calls on the pair (c, d) that have returned applied in total:
\* amount - overpayment each
AppliedTo(c, d) ==
    SumOver([t \in TaskIds |-> tasks[t].amount - tasks[t].ret],
            {t \in Calls : Returned(t) /\ tasks[t].creditor_id = c
                                       /\ tasks[t].debtor_id = d})

\* C1: money conservation.  After any sequence of apply_payment calls, for
\* every (creditor, debtor) pair the sum of the pair's Debt amounts is the
\* prior sum minus what the returned calls applied (amount - overpayment).
C1_Conservation ==
    \A p \in Pairs :
        PairSum(debts, p[1], p[2]) = PairSum(ledger0, p[1], p[2]) - AppliedTo(p[1], p[2])

\* C1 witness: two payments on one pair have returned, each having reduced
\* the debt
C1_Witness ==
    \E t \in Calls, u \in Calls :
        /\ t # u /\ Returned(t) /\ Returned(u)
        /\ tasks[t].creditor_id = tasks[u].creditor_id
        /\ tasks[t].debtor_id = tasks[u].debtor_id
        /\ tasks[t].ret = 0 /\ tasks[u].ret = 0

\* The allocation the contract describes: delete rows oldest first while
\* the payment covers them, then reduce one row by what is left
RECURSIVE GreedyWrites(_, _)
GreedyWrites(rows, remaining) ==
    IF rows = <<>> \/ remaining <= 0 THEN <<>>
    ELSE IF remaining >= Head(rows).amount
         THEN <<[op |-> "DELETE", id |-> Head(rows).id, by |-> 0]>>
              \o GreedyWrites(Tail(rows), remaining - Head(rows).amount)
         ELSE <<[op |-> "UPDATE", id |-> Head(rows).id, by |-> remaining]>>

Max(a, b) == IF a >= b THEN a ELSE b

\* C2: allocation is oldest first.  Every call of apply_payment that has
\* ended has returned, having deleted the pair's rows in creation order
\* while the payment covered them and reduced at most one row, the last it
\* touched (debts 10 then 5 paid with 12: the 10 deleted, the 5 left at 3).
C2_OldestFirst ==
    \A t \in Calls :
        tasks[t].pc = "done" =>
            /\ tasks[t].outcome = "returned"
            /\ tasks[t].writes = GreedyWrites(tasks[t].rows, tasks[t].amount)

\* C3: the value returned is max(0, amount - priorSum).  Every call of
\* apply_payment that has ended has returned that value (a debt of 10 paid
\* with 15 returns 5; no debt at all returns the whole amount).
C3_Overpayment ==
    \A t \in Calls :
        tasks[t].pc = "done" =>
            /\ tasks[t].outcome = "returned"
            /\ tasks[t].ret = Max(0, tasks[t].amount - SumAmounts(tasks[t].rows))

\* The orders in which the calls made so far can run one after the other
Orders(S) == {o \in [1..Cardinality(S) -> S] :
                \A j, k \in 1..Cardinality(S) : o[j] = o[k] => j = k}

\* The calls of o run one after the other from ledger: TRUE when that
\* leaves `final` and ends every call as it ended
RECURSIVE SerialGives(_, _, _)
SerialGives(ledger, o, final) ==
    IF o = <<>> THEN ledger = final
    ELSE LET tk == tasks[Head(o)]
             r == apply_payment(ledger, tk.creditor_id, tk.debtor_id, tk.amount) IN
         /\ r.outcome = tk.outcome
         /\ r.ret = tk.ret
         /\ SerialGives(r.ledger, Tail(o), final)

AllEnded == \A t \in Calls : tasks[t].pc = "done"

\* C9: concurrent payments are serialized.  When the concurrent calls of
\* apply_payment have all ended, the Debt rows and every call's result
\* (returned overpayment, or the exception raised) are those of running
\* the calls one after the other in some order.
C9_Serializable ==
    AllEnded => \E o \in Orders(Calls) : SerialGives(ledger0, o, debts)

\* C9 witness: a call waits in its SELECT ... FOR UPDATE for a row that
\* another call on the same pair holds locked and has already reduced
C9_Witness ==
    \E t \in Calls, u \in Calls :
        /\ t # u
        /\ tasks[t].pc = "ap_fetch"
        /\ ForUpdateBlocked(t, tasks[t].creditor_id, tasks[t].debtor_id)
        /\ tasks[u].pc = "ap_loop" /\ tasks[u].writes # <<>>
        /\ tasks[u].creditor_id = tasks[t].creditor_id
        /\ tasks[u].debtor_id = tasks[t].debtor_id

---------------------------------------------------------------------------
(* Claims about the bot, checked under Spec *)

\* The callbacks started for message m
CallbacksOf(m) == {t \in TaskIds : tasks[t].msg = m}

\* No store call of a callback of m has failed
NoStoreError(m) == \A t \in CallbacksOf(m) : tasks[t].outcome # "StoreError"

\* The confirm or allocation of m has changed the ledger
LedgerChanged(m) == hist[m].debts > 0 \/ hist[m].runs > 0

IsPending(m) == m \in DOMAIN pending_requests \/ m \in DOMAIN pending_payments

C5_IdempotentConfirm ==
    \A m \in Msgs :
        (post[m].kind = "request" /\ NoStoreError(m)) =>
            /\ hist[m].debts <= 1
            /\ Cardinality({t \in CallbacksOf(m) :
                               /\ tasks[t].kind = "confirm_debt"
                               /\ tasks[t].outcome = "confirmed"}) <= 1

\* The sweep is not in the middle of handling message m
SweepDoneWith(m) == m \notin sweep.todo /\ sweep.cur # m

\* C6: expiry race.  When the sweep and a Confirm have run on the same
\* pending request and both are through with it, never both have happened:
\* a Debt created from the request, and the request deleted by the sweep
\* or its prompt left shown as expired.
C6_ExpiryRace ==
    \A m \in Msgs :
        (/\ post[m].kind = "request"
         /\ NoStoreError(m)
         /\ \A t \in CallbacksOf(m) : tasks[t].pc = "done"
         /\ SweepDoneWith(m)) =>
            ~(/\ hist[m].debts > 0
              /\ (hist[m].removed = "sweep" \/ prompt[m] = "expired"))

\* C7: a pending payment is never double-applied.  Over any interleaving
\* of Confirm, Deny and the sweep on one payment, what the allocator has
\* taken off the pair's debt for that payment (in all its runs) is at most
\* the payment's amount.
C7_AppliedOnce ==
    \A m \in Msgs :
        (post[m].kind = "payment" /\ NoStoreError(m)) =>
            hist[m].applied <= post[m].amount

\* C8: Confirm is atomic.  Once no callback of a message is running
\* (each has returned or has failed), it is not the case that the ledger
\* was changed for the message and its Pending row still exists, nor that
\* a Confirm removed the Pending row and the ledger was not changed.
C8_ConfirmAtomic ==
    \A m \in Msgs :
        (\A t \in CallbacksOf(m) : tasks[t].pc = "done") =>
            /\ ~(LedgerChanged(m) /\ IsPending(m))
            /\ ~(hist[m].removed = "confirm" /\ ~LedgerChanged(m))

\* Who may confirm or deny message m: the debtor of a request, the creditor
\* of a payment
Authorized(m) ==
    IF post[m].kind = "request" THEN post[m].debtor_id ELSE post[m].creditor_id

\* C10: authorization.  A callback started by anyone but the debtor of the
\* request (the creditor of the payment) never gets past its lookup: it
\* makes no store call that writes and edits no prompt, so the Pending row
\* and every Debt row stay as they are.
C10_Authorization ==
    \A t \in TaskIds :
        (/\ tasks[t].msg \in Msgs
         /\ \/ tasks[t].pc \in {"add", "ap_fetch", "ap_loop", "delete", "respond"}
            \/ tasks[t].outcome \in {"confirmed", "denied", "TypeError", "CheckViolation"})
        => tasks[t].user = Authorized(tasks[t].msg)

\* C10 witness: a callback has answered that its user is not the one who
\* may respond; the item is still pending, its prompt still shows the
\* buttons, and the ledger is the one the bot started on
C10_Witness ==
    \E t \in TaskIds :
        /\ tasks[t].outcome = "not_authorized"
        /\ tasks[t].user # Authorized(tasks[t].msg)
        /\ IsPending(tasks[t].msg)
        /\ prompt[tasks[t].msg] = "pending"
        /\ debts = ledger0

\* The tables of the store
store == <<debts, nextDebtId, pending_requests, pending_payments>>

\* C11: validation before mutation.  A /request or /pay whose target is
\* the actor, or whose amount is <= 0, is answered with the validation
\* message and changes nothing: no Debt row and no Pending row is created
\* or changed, and no prompt is posted for it.
C11_ValidationFirst ==
    /\ [](\A m \in Msgs : post[m].kind # "none" =>
               /\ post[m].creditor_id # post[m].debtor_id
               /\ post[m].mills > 0)
    /\ [](\A r \in Range(pending_requests) \cup Range(pending_payments) :
               r.creditor_id # r.debtor_id /\ r.amount > 0)
    /\ [][(reply' # reply /\ reply' \in {"self", "amount"})
            => UNCHANGED <<store, post, prompt, cmd>>]_vars

\* C11 witness: a command has been rejected on a ledger that holds a debt,
\* and the ledger is as it was
C11_Witness ==
    /\ reply \in {"self", "amount"}
    /\ debts # <<>> /\ debts = ledger0
    /\ pending_requests = <<>> /\ pending_payments = <<>>

\* The terminal outcomes that have been reported for message m: by a
\* callback that rewrote the prompt, by the sweep that expired it
Reported(m) ==
    {tasks[t].outcome : t \in {u \in CallbacksOf(m) :
                                  tasks[u].outcome \in {"confirmed", "denied"}}}
    \cup (IF hist[m].removed = "sweep" \/ prompt[m] = "expired"
          THEN {"expired"} ELSE {})

\* C12: resolution is exclusive.  Of Confirm, Deny and the expiry sweep
\* running on one pending item, one is authoritative: the item is never
\* reported with two different terminal outcomes (Confirmed, Denied,
\* Expired), and at most one callback reports an outcome, the others
\* answering "already resolved".
C12_ExclusiveResolution ==
    \A m \in Msgs :
        NoStoreError(m) =>
            /\ Cardinality(Reported(m)) <= 1
            /\ Cardinality({t \in CallbacksOf(m) :
                               tasks[t].outcome \in {"confirmed", "denied"}}) <= 1

\* C13: a reminder is sent at most once per pending item.  Over any number
\* of runs of the sweep, no pending request or payment has caused more
\* than one reminder notification.
C13_ReminderOnce == \A m \in Msgs : hist[m].reminders <= 1

\* The rows an expiry loop of the sweep has fetched and not yet deleted
SweepLeft ==
    IF sweep.pc \in {"expire_req", "expire_pay"}
    THEN sweep.todo \cup ({sweep.cur} \ {0}) ELSE {}

\* C14: notification failures do not block expiry.  A run of the sweep is
\* never ended by a failure to edit a prompt while a row it has fetched as
\* expired is still in the Pending table: the failure is passed over and
\* the row is deleted by that run.
C14_ExpiryNotBlocked ==
    \A m \in Msgs : ~(sweep.raised # "no" /\ m \in SweepLeft /\ IsPending(m))

IsDenyKind(kind) == kind \in {"deny_debt", "deny_payment"}

\* A step of a Deny callback of message m
DenyStep(m) ==
    \E t \in TaskIds :
        tasks[t].msg = m /\ IsDenyKind(tasks[t].kind) /\ tasks'[t] # tasks[t]

\* A step of an expiry loop of the sweep, on message m
ExpiryStep(m) ==
    /\ sweep.pc \in {"expire_req", "expire_pay"}
    /\ sweep' # sweep
    /\ m \in sweep.todo \cup {sweep.cur}

AllocationFails(t) ==
    /\ tasks[t].pc \in {"ap_fetch", "ap_loop"}
    /\ tasks'[t].pc = "done"
    /\ tasks'[t].outcome # "returned"

\* The call of apply_payment made by task t returns
AllocationReturns(t) ==
    /\ tasks[t].pc = "ap_loop"
    /\ tasks'[t].pc # "ap_loop"
    /\ ~AllocationFails(t)

\* C16: a failure inside payment allocation rolls back fully.  A call of
\* apply_payment that ends by an exception, at whatever step, leaves the
\* Debt rows exactly as they were before the call; and a call that runs to
\* its end, after any number of failed attempts, leaves the ledger that a
\* single run of it on the ledger as it stands leaves.
C16_RollbackFully ==
    [][\A t \in TaskIds :
          /\ AllocationFails(t) => debts' = debts
          /\ AllocationReturns(t) =>
                debts' = apply_payment(debts, tasks[t].creditor_id, tasks[t].debtor_id,
                                       tasks[t].amount).ledger]_vars

\* C16 witness: an allocation has failed after it had reduced a Debt row
\* inside its transaction, and the retry has run to its end and reduced it
C16_Witness ==
    \E m \in Msgs :
        /\ hist[m].rolledback
        /\ hist[m].runs = 1
        /\ debts # ledger0

\* The Pending row of message m, as <<row>> or <<>>
RowOf(m) ==
    IF post[m].kind = "request" THEN get_pending_request(m) ELSE get_pending_payment(m)

\* C17: restart safety.  Whether or not the bot has been started again
\* since an item was created: while its prompt shows the buttons the view
\* that answers them is registered, the stored row is the one the command
\* created, and a callback that has passed its lookup works on exactly
\* that row's creditor, debtor and amount, for the authorized user.
C17_RestartSafe ==
    \A m \in Msgs :
        /\ (IsPending(m) /\ prompt[m] = "pending") => ViewOf(post[m].kind) \in views
        /\ RowOf(m) # <<>> =>
              /\ RowOf(m)[1].creditor_id = post[m].creditor_id
              /\ RowOf(m)[1].debtor_id = post[m].debtor_id
              /\ RowOf(m)[1].amount = post[m].amount
        /\ \A t \in CallbacksOf(m) :
              tasks[t].pc \in {"add", "ap_fetch", "ap_loop", "delete", "respond"} =>
                  /\ tasks[t].user = Authorized(m)
                  /\ tasks[t].creditor_id = post[m].creditor_id
                  /\ tasks[t].debtor_id = post[m].debtor_id
                  /\ tasks[t].amount = post[m].amount

\* C17 witness: the bot was started again while a request was pending, and
\* the debtor has then confirmed it: one Debt row for it, the row deleted
C17_Witness ==
    \E m \in Msgs, t \in TaskIds :
        /\ hist[m].restarted
        /\ tasks[t].msg = m /\ tasks[t].outcome = "confirmed"
        /\ tasks[t].user = Authorized(m)
        /\ hist[m].debts = 1
        /\ ~IsPending(m)

\* The call of task t commits on the pair p
CommitsOn(t, p) ==
    /\ tasks[t].pc = "ap_loop" /\ tasks'[t].pc # "ap_loop"
    /\ <<tasks[t].creditor_id, tasks[t].debtor_id>> = p

\* The Debt rows of ledger whose creditor is p[1] and whose debtor is p[2]
RowsOf(ledger, p) ==
    SelectSeq(ledger, LAMBDA r : r.creditor_id = p[1] /\ r.debtor_id = p[2])

\* C18: apply_payment touches only the Debt rows of its own pair.  No step
\* of it inserts a Debt row or increases an amount (every row there is
\* afterwards was there before, with the same parties and at least that
\* amount), the rows of a pair change only by a call on that very pair
\* (not by one on the reversed pair), and the Pending rows stay as they are.
C18_AllocatorFrame ==
    [][/\ \A k \in 1..Len(debts') :
              \E j \in 1..Len(debts) :
                  /\ debts[j].id = debts'[k].id
                  /\ debts[j].creditor_id = debts'[k].creditor_id
                  /\ debts[j].debtor_id = debts'[k].debtor_id
                  /\ debts'[k].amount <= debts[j].amount
       /\ \A p \in Pairs :
              RowsOf(debts', p) # RowsOf(debts, p) =>
                  \E t \in TaskIds : CommitsOn(t, p)
       /\ UNCHANGED <<pending_requests, pending_payments, nextDebtId>>]_vars

\* C18 witness: a payment has reduced the debt of its pair while the
\* reversed pair holds a Debt row and a request is pending
C18_Witness ==
    \E t \in Calls :
        /\ Returned(t) /\ tasks[t].ret = 0
        /\ PairRows(debts, tasks[t].creditor_id, tasks[t].debtor_id)
               # PairRows(ledger0, tasks[t].creditor_id, tasks[t].debtor_id)
        /\ PairRows(debts, tasks[t].debtor_id, tasks[t].creditor_id) # <<>>
        /\ pending_requests # <<>>

\* The instant at which the item of message m expires: its creation time
\* plus one day
ExpiresAt(m) == post[m].created_at + ExpiryHours

\* A reminder query of the sweep has just answered
ReminderQuery ==
    /\ sweep'.pc \in {"remind_req", "remind_pay"}
    /\ sweep'.pc # sweep.pc

QuietBalances ==
    {t \in TaskIds : /\ tasks[t].kind = "get_balance_between"
                      /\ tasks[t].pc = "done"
                      /\ tasks[t].outcome = "returned"}

\* What the Debt rows of ledger say creditor is owed by debtor
SumOwed(ledger, creditor, debtor) == SumAmounts(RowsOf(ledger, <<creditor, debtor>>))

\* C20: get_balance_between(a, b) returns (the sum of the Debt amounts with
\* creditor a and debtor b) minus (the sum with creditor b and debtor a);
\* it is positive exactly when b owes a net; on one ledger the balance of
\* (a, b) is minus the balance of (b, a); and no step of it changes the
\* store.
C20_NetBalance ==
    /\ [](\A t \in QuietBalances :
             LET a == tasks[t].creditor_id
                 b == tasks[t].debtor_id
                 L == tasks[t].rows IN
             /\ tasks[t].ret = SumOwed(L, a, b) - SumOwed(L, b, a)
             /\ (tasks[t].ret > 0) <=> (SumOwed(L, a, b) > SumOwed(L, b, a))
             /\ \A u \in QuietBalances :
                   (/\ tasks[u].rows = L
                    /\ tasks[u].creditor_id = b
                    /\ tasks[u].debtor_id = a) => tasks[u].ret = -tasks[t].ret)
    /\ [][(\E t \in TaskIds : /\ tasks'[t].kind = "get_balance_between"
                               /\ tasks'[t] # tasks[t])
            => UNCHANGED store]_vars

\* C20 witness: on a ledger with Debt rows in both directions, the balance
\* of (a, b) and that of (b, a) have both been returned, and b owes a net
C20_Witness ==
    \E t \in QuietBalances, u \in QuietBalances :
        /\ tasks[u].rows = tasks[t].rows
        /\ tasks[u].creditor_id = tasks[t].debtor_id
        /\ tasks[u].debtor_id = tasks[t].creditor_id
        /\ RowsOf(tasks[t].rows, <<tasks[t].creditor_id, tasks[t].debtor_id>>) # <<>>
        /\ RowsOf(tasks[t].rows, <<tasks[t].debtor_id, tasks[t].creditor_id>>) # <<>>
        /\ tasks[t].ret > 0

\* C22: "already resolved" is final.  Once a callback has answered
\* "already resolved" for a message, no Pending row with that message
\* identity exists, then or later; this includes a button pressed right
\* after the command has posted the prompt.
C22_AlreadyResolvedFinal ==
    \A t \in TaskIds :
        tasks[t].outcome = "already_resolved" => ~IsPending(tasks[t].msg)

\* The sweep emits a reminder for message m in this step
ReminderEmitted(m) == hist'[m].reminders > hist[m].reminders

\* The sweep rewrites the prompt of message m to "Expired" in this step
ExpiredShown(m) == prompt'[m] = "expired" /\ prompt[m] # "expired"

\* C24: sweep notifications only concern items that are still pending.  A
\* reminder is emitted, and a prompt is rewritten to "Expired", only for an
\* item whose Pending row exists at that moment; and no prompt is shown as
\* expired while a Debt created from it exists.
C24_NotifyOnlyPending ==
    /\ [][\A m \in Msgs : (ReminderEmitted(m) \/ ExpiredShown(m)) => IsPending(m)]_vars
    /\ [](\A m \in Msgs : prompt[m] = "expired" => hist[m].debts = 0)


---------------------------------------------------------------------------
(* Polarity and payload, from the command to the ledger *)

\* The callback t inserts a Debt in this step
DebtInsertedBy(t) ==
    /\ tasks[t].pc = "add"
    /\ tasks'[t].pc = "delete"
    /\ Len(debts') = Len(debts) + 1

\* The callback t goes on to apply_payment in this step
AllocationStartedBy(t) ==
    /\ tasks[t].kind = "confirm_payment"
    /\ tasks[t].pc = "get"
    /\ tasks'[t].pc = "ap_fetch"

\* C23: role polarity and payload are preserved from creation to the
\* ledger.  A Pending row carries what its command was given: the issuer
\* of /request as creditor and the named member as debtor, the issuer of
\* /pay as debtor and the named member as creditor.  The Debt inserted when
\* a request is confirmed has creditor = the issuer of /request, debtor =
\* the requested member, and the amount and note of the Pending row; a
\* confirmed payment is allocated with debtor = the issuer of /pay,
\* creditor = the paid member, and the amount of the Pending row.
C23_PolarityAndPayload ==
    /\ [](\A m \in DOMAIN pending_requests :
              /\ pending_requests[m].creditor_id = post[m].actor
              /\ pending_requests[m].debtor_id = post[m].member
              /\ pending_requests[m].amount = Round2(post[m].mills)
              /\ pending_requests[m].note = post[m].note)
    /\ [](\A m \in DOMAIN pending_payments :
              /\ pending_payments[m].debtor_id = post[m].actor
              /\ pending_payments[m].creditor_id = post[m].member
              /\ pending_payments[m].amount = Round2(post[m].mills))
    /\ [][\A t \in TaskIds : DebtInsertedBy(t) =>
              LET m == tasks[t].msg
                  d == debts'[Len(debts')] IN
              /\ d.creditor_id = post[m].actor
              /\ d.debtor_id = post[m].member
              /\ d.amount = Round2(post[m].mills)
              /\ d.note = post[m].note]_vars
    /\ [][\A t \in TaskIds : AllocationStartedBy(t) =>
              LET m == tasks[t].msg IN
              /\ tasks'[t].debtor_id = post[m].actor
              /\ tasks'[t].creditor_id = post[m].member
              /\ tasks'[t].amount = pending_payments[m].amount]_vars

\* bob's /request of alice with a note was confirmed, and the Debt it
\* inserted is in the ledger
C23_Witness ==
    \E m \in Msgs :
        /\ post[m].kind = "request"
        /\ post[m].actor = "bob"
        /\ post[m].member = "alice"
        /\ post[m].note = "dinner"
        /\ hist[m].debts = 1
        /\ \E k \in 1..Len(debts) :
              /\ debts[k].note = "dinner"
              /\ debts[k].creditor_id = "bob"
              /\ debts[k].debtor_id = "alice"
              /\ debts[k].amount = 500


---------------------------------------------------------------------------
(* Progress of the sweep *)

\* The loop of check_pending_requests is alive: no run of it was ended by
\* an exception
SweepRuns == sweep.raised = "no"

\* C21: every pending item is eventually resolved.  Provided the periodic
\* sweep keeps running (from some moment on no run of it is ended by an
\* exception), every Pending row is eventually gone from the store:
\* confirmed, denied, or deleted by the sweep once its expires_at has
\* passed.  No Pending row stays in the store forever: either the sweep is
\* found stopped again and again, or every message is again and again
\* without a Pending row (a message id is used once, so that is: its row,
\* once inserted, is deleted).
C21_EventuallyResolved ==
    \/ []<>(~SweepRuns)
    \/ \A m \in Msgs : []<>(~IsPending(m))

\* A pending item nobody pressed a button of was deleted by the sweep, its
\* expires_at passed
C21_Witness ==
    \E m \in Msgs :
        /\ hist[m].removed = "sweep"
        /\ ~IsPending(m)
        /\ now >= ExpiresAt(m)
        /\ nextTask = 1
        /\ SweepRuns

====
